---- MODULE Spec2Model ----
(***************************************************************************)
(* Model of sklearn_porter.Porter (src/sklearn_porter/Porter.py): the      *)
(* constructor, export, and the export/compile/execute cycle of predict,   *)
(* together with the environment predict talks to (the executables on the  *)
(* PATH, the template directories, the workspace directory, the external   *)
(* program that the ported model is).                                      *)
(*                                                                         *)
(* Strings the code builds or takes apart (class names, file names,        *)
(* command lines, process output) are sequences of one-character strings.  *)
(* Strings the code only compares (languages, method names, exception      *)
(* types) are TLA+ strings.                                                *)
(***************************************************************************)
EXTENDS Integers, Sequences, FiniteSets, TLC

\* ------------------------------------------------------------------ bounds
\* Longest class name drawn for export (besides the default 'Brain').
MaxNameLen == 2
\* Most rows of a two-dimensional input X.
MaxRows == 2

\* ----------------------------------------------------------------- strings
\* Python's None, where a value may also be a string (a character sequence).
None == <<"<None>">>

SP == <<" ">>

RECURSIVE Concat(_)
\* The concatenation of a sequence of strings ('{}...{}'.format and +).
Concat(ss) == IF ss = <<>> THEN <<>> ELSE Head(ss) \o Concat(Tail(ss))

UpperCase == <<"A", "B", "I", "N", "R">>
LowerCase == <<"a", "b", "i", "n", "r">>
Digits == <<"0", "1", "2", "3", "4", "5", "6", "7", "8", "9">>

\* str.lower() on one character.
LowerChar(ch) ==
    IF \E i \in 1..Len(UpperCase) : UpperCase[i] = ch
    THEN LowerCase[CHOOSE i \in 1..Len(UpperCase) : UpperCase[i] = ch]
    ELSE ch

\* str.upper() on one character.
UpperChar(ch) ==
    IF \E i \in 1..Len(LowerCase) : LowerCase[i] = ch
    THEN UpperCase[CHOOSE i \in 1..Len(LowerCase) : LowerCase[i] = ch]
    ELSE ch

\* str.lower()
Lower(s) == [i \in 1..Len(s) |-> LowerChar(s[i])]

\* str.capitalize(): first character upper-cased, the rest lower-cased.
Capitalize(s) ==
    [i \in 1..Len(s) |-> IF i = 1 THEN UpperChar(s[i]) ELSE LowerChar(s[i])]

IsSpace(ch) == ch \in {" ", "\n", "\t"}

RECURSIVE LStrip(_)
LStrip(s) == IF s # <<>> /\ IsSpace(Head(s)) THEN LStrip(Tail(s)) ELSE s

RECURSIVE RStrip(_)
RStrip(s) ==
    IF s # <<>> /\ IsSpace(s[Len(s)]) THEN RStrip(SubSeq(s, 1, Len(s) - 1)) ELSE s

\* str.strip()
Strip(s) == LStrip(RStrip(s))

RECURSIVE SplitFrom(_, _)
\* str.split() helper: cur is the word being read, s the unread rest.
SplitFrom(cur, s) ==
    IF s = <<>>
    THEN IF cur = <<>> THEN <<>> ELSE <<cur>>
    ELSE IF IsSpace(Head(s))
         THEN IF cur = <<>> THEN SplitFrom(<<>>, Tail(s))
                            ELSE <<cur>> \o SplitFrom(<<>>, Tail(s))
         ELSE SplitFrom(Append(cur, Head(s)), Tail(s))

\* str.split(): the words of s, separated by runs of whitespace.
Split(s) == SplitFrom(<<>>, s)

\* str(x) for a value that is a string or None.
Str(x) == IF x = None THEN <<"N", "o", "n", "e">> ELSE x

\* str(f) for a feature value (a one-digit natural number here).
StrNat(n) == IF n < 10 THEN <<Digits[n + 1]>>
             ELSE <<Digits[(n \div 10) + 1], Digits[(n % 10) + 1]>>

IsDigit(ch) == \E i \in 1..10 : Digits[i] = ch
DigitVal(ch) == (CHOOSE i \in 1..10 : Digits[i] = ch) - 1

RECURSIVE DigitsVal(_, _)
DigitsVal(acc, s) ==
    IF s = <<>> THEN acc ELSE DigitsVal(acc * 10 + DigitVal(Head(s)), Tail(s))

\* int(pred) succeeds: pred, stripped, is a non-empty run of decimal digits.
IntParses(s) ==
    LET t == Strip(s) IN t # <<>> /\ \A i \in 1..Len(t) : IsDigit(t[i])

\* int(pred) where it succeeds.
Int_(s) == DigitsVal(0, Strip(s))

\* ------------------------------------------------------------- executables
GCC == <<"g", "c", "c">>
JAVA == <<"j", "a", "v", "a">>
JAVAC == <<"j", "a", "v", "a", "c">>
NODE == <<"n", "o", "d", "e">>
PHP == <<"p", "h", "p">>
RUBY == <<"r", "u", "b", "y">>
MKDIR == <<"m", "k", "d", "i", "r">>
RM == <<"r", "m">>
AllExes == {GCC, JAVA, JAVAC, NODE, PHP, RUBY, MKDIR, RM}

\* ---------------------------------------------------------------- languages
\* The target languages the constructor documents.
SupportedLanguages == {"c", "go", "java", "js", "php", "ruby"}

\* str(language) for a language the suffix table does not list.
LangStr(language) ==
    IF language = "swift" THEN <<"s", "w", "i", "f", "t">> ELSE <<"?">>

\* get_filename without the capitalisation for java
get_filename_lowercase(class_name, language) ==
    LET suffix == CASE language = "c" -> <<"c">>
                    [] language = "java" -> JAVA
                    [] language = "js" -> <<"j", "s">>
                    [] language = "go" -> <<"g", "o">>
                    [] language = "php" -> PHP
                    [] language = "ruby" -> <<"r", "b">>
                    [] OTHER -> LangStr(language)
    IN Concat(<<Lower(Str(class_name)), <<".">>, suffix>>)

\* Porter.get_filename(class_name, language)
get_filename(class_name, language) ==
    LET lowered == Lower(Str(class_name))
        name == IF language = "java" THEN Capitalize(lowered) ELSE lowered
        suffix == CASE language = "c" -> <<"c">>
                    [] language = "java" -> JAVA
                    [] language = "js" -> <<"j", "s">>
                    [] language = "go" -> <<"g", "o">>
                    [] language = "php" -> PHP
                    [] language = "ruby" -> <<"r", "b">>
                    [] OTHER -> LangStr(language)
    IN Concat(<<name, <<".">>, suffix>>)

\* Porter.get_commands(filename, class_name, language): <<comp_cmd, exec_cmd>>
get_commands(filename, class_name, language) ==
    LET cname == Lower(Str(class_name))
        fname == Str(filename)
        comp_cmd ==
            CASE language = "c" ->
                     Concat(<<GCC, SP, fname, SP, <<"-", "l", "m">>, SP,
                              <<"-", "o">>, SP, cname>>)
              [] language = "java" -> Concat(<<JAVAC, SP, fname>>)
              [] OTHER -> None
        exec_cmd ==
            CASE language = "c" -> Concat(<<<<".", "/">>, cname>>)
              [] language = "java" ->
                     Concat(<<JAVA, SP,
                              <<"-", "c", "l", "a", "s", "s", "p", "a", "t", "h">>,
                              SP, <<".">>, SP, Capitalize(cname)>>)
              [] language = "js" -> Concat(<<NODE, SP, fname>>)
              [] language = "php" -> Concat(<<PHP, SP, <<"-", "f">>, SP, fname>>)
              [] language = "ruby" -> Concat(<<RUBY, SP, fname>>)
              [] OTHER -> None
    IN <<comp_cmd, exec_cmd>>

\* -------------------------------------------------------------------- state
VARIABLES
    \* the environment
    python_major,            \* 2 or 3: the interpreter running the package
    is_interned,             \* whether `available.strip() is '1'` is true for an output of '1'
    present,                 \* the executables on the PATH
    templateDirs,            \* languages whose templates/<language> directory exists
    SUPPORTED_METHODS,       \* the template class's SUPPORTED_METHODS
    dirFiles,                \* files in tnp_dir
    dirExists,               \* whether tnp_dir exists
    \* the Porter instance
    constructed,
    target_language,
    target_method,
    tested_env_dependencies,
    \* the running predict call
    pc,
    X,
    keep_tmp_dir,
    details,
    exec_cmd,
    idx,
    y,
    \* what the last operation did
    trace,                   \* its filesystem probes, process spawns and file writes, in order
    last,                    \* its outcome
    passedProbe              \* test_dependencies has returned on this instance

env == <<python_major, is_interned, present, templateDirs, SUPPORTED_METHODS>>
fs == <<dirFiles, dirExists>>
inst == <<constructed, target_language, target_method, tested_env_dependencies>>
args == <<X, keep_tmp_dir>>
locals == <<exec_cmd, idx, y>>
vars == <<env, fs, inst, pc, args, locals, details, trace, last, passedProbe>>

\* ------------------------------------------------------------------- inputs
Brain == <<"B", "r", "a", "i", "n">>
NameChars == {"B", "b", "1"}

RECURSIVE NamesUpTo(_)
NamesUpTo(n) ==
    IF n = 0 THEN {<<>>}
    ELSE LET shorter == NamesUpTo(n - 1)
         IN shorter \cup {Append(s, ch) : s \in shorter, ch \in NameChars}

ClassNames == (NamesUpTo(MaxNameLen) \ {<<>>}) \cup {Brain}

Methods == {"predict", "predict_proba"}

\* language arguments; Normalise is str(language).strip().lower() on them
LanguageArgs == SupportedLanguages \cup {"JAVA", " js ", "swift"}
Normalise(language) ==
    CASE language = "JAVA" -> "java"
      [] language = " js " -> "js"
      [] OTHER -> language

\* models handed to the constructor
Models == {"GaussianNB", "NoPorterModule", "NotAClassifier"}

\* feature values, one for each behaviour of the exported program (see Program)
FeatureValues == {0, 1, 2, 3}

\* feature vectors of a model with one feature
Vectors == {<<v>> : v \in FeatureValues}

RECURSIVE BatchesUpTo(_)
BatchesUpTo(n) ==
    IF n = 0 THEN {<<>>}
    ELSE LET shorter == BatchesUpTo(n - 1)
         IN shorter \cup {Append(b, v) : b \in shorter, v \in Vectors}

\* X: ndim 1 is one feature vector (rows holds it alone), ndim 2 a matrix of rows.
Inputs ==
    {[ndim |-> 1, rows |-> <<v>>] : v \in Vectors}
    \cup {[ndim |-> 2, rows |-> b] : b \in BatchesUpTo(MaxRows)}

NoInput == [ndim |-> 0, rows |-> <<>>]
NoDetails == [detailed |-> FALSE, model |-> None, filename |-> None,
              class_name |-> None, method_name |-> "", compilation |-> None,
              execution |-> None]
Idle == [op |-> "none", kind |-> "none", error |-> "", what |-> None,
         code |-> 0, y |-> <<>>, language |-> ""]

\* one entry of trace
Event(ev, argv, exit) == [ev |-> ev, argv |-> argv, exit |-> exit]

\* an operation op ended by raising
Raised(op, error, what, code) ==
    [op |-> op, kind |-> "raised", error |-> error, what |-> what,
     code |-> code, y |-> <<>>, language |-> target_language]

\* an operation op ended by returning
Returned(op, val) ==
    [op |-> op, kind |-> "returned", error |-> "", what |-> None,
     code |-> 0, y |-> val, language |-> target_language]

\* the locals of predict other than details, X and keep_tmp_dir, as no call has them
ResetLocals ==
    /\ exec_cmd' = <<>>
    /\ idx' = 0
    /\ y' = <<>>


Init ==
    /\ python_major \in {2, 3}
    /\ is_interned \in (IF python_major = 3 THEN {FALSE} ELSE BOOLEAN)
    /\ present \in {AllExes} \cup {AllExes \ {e} : e \in AllExes}
    /\ templateDirs \in {SupportedLanguages, SupportedLanguages \ {"ruby"},
                         SupportedLanguages \cup {"swift"}}
    /\ SUPPORTED_METHODS \in {{"predict"}, {"predict_proba"}}
    /\ dirFiles = {}
    /\ dirExists = FALSE
    /\ constructed = FALSE
    /\ target_language = ""
    /\ target_method = ""
    /\ tested_env_dependencies = FALSE
    /\ pc = "idle"
    /\ X = NoInput
    /\ keep_tmp_dir = FALSE
    /\ details = NoDetails
    /\ exec_cmd = <<>>
    /\ idx = 0
    /\ y = <<>>
    /\ trace = <<>>
    /\ last = Idle
    /\ passedProbe = FALSE

\* -------------------------------------------------------------- constructor
\* Porter.__init__(model, language, method): the exception it raises, or "".
\* Python 3: setattr on a property without a setter raises (line 45).
\* Python 2: hasattr swallows algorithm_type's ValueError, so the package
\* path cannot be formatted (line 48); an import error, a missing template
\* directory and an unsupported method are AttributeErrors.
InitError(model, language, method) ==
    CASE python_major = 3 -> <<"AttributeError", "setattr">>
      [] python_major = 2 /\ model = "NotAClassifier" -> <<"KeyError", "algorithm_type">>
      [] python_major = 2 /\ model = "NoPorterModule" -> <<"AttributeError", "model">>
      [] python_major = 2 /\ model = "GaussianNB" /\ Normalise(language) \notin templateDirs
            -> <<"AttributeError", "language">>
      [] python_major = 2 /\ model = "GaussianNB" /\ Normalise(language) \in templateDirs
            /\ method \notin SUPPORTED_METHODS
            -> <<"AttributeError", "method">>
      [] OTHER -> <<"", "">>

\* the os.path.isdir probes __init__ makes before it ends
InitProbes(model, language) ==
    IF python_major = 2 /\ model = "GaussianNB"
    THEN <<Event("isdir", <<>>, 0)>>
    ELSE <<>>

Construct(model, language, method) ==
    /\ pc = "idle"
    /\ LET err == InitError(model, language, method) IN
        /\ trace' = InitProbes(model, language)
        /\ IF err[1] = ""
           THEN /\ constructed' = TRUE
                /\ target_language' = Normalise(language)
                /\ target_method' = method
                /\ tested_env_dependencies' = FALSE
                /\ passedProbe' = FALSE
                /\ last' = [Returned("init", <<>>) EXCEPT
                                !.language = Normalise(language)]
           ELSE /\ UNCHANGED <<inst, passedProbe>>
                /\ last' = [Raised("init", err[1], <<err[2]>>, 0) EXCEPT
                                !.language = Normalise(language)]
    /\ pc' = "done"
    /\ UNCHANGED <<env, fs, args, locals, details>>

\* ------------------------------------------------------------------- export
\* the text template.export returns (the template classes render it)
ModelSource == <<"<source>">>

\* Porter.export(class_name, method_name, details=True): the output record
ExportDetails(class_name, method_name) ==
    LET filename == get_filename(class_name, target_language)
        cmds == get_commands(filename, class_name, target_language)
    IN [detailed |-> TRUE, model |-> Str(ModelSource), filename |-> filename,
        class_name |-> class_name, method_name |-> method_name,
        compilation |-> cmds[1], execution |-> cmds[2]]

\* Porter.export(class_name, 'predict', det), and Porter.port, which forwards to it
Export(class_name, det) ==
    /\ pc = "idle"
    /\ constructed
    /\ details' = IF det THEN ExportDetails(class_name, "predict")
                  ELSE [NoDetails EXCEPT !.model = ModelSource]
    /\ last' = Returned("export", <<>>)
    /\ pc' = "done"
    /\ UNCHANGED <<env, fs, inst, args, locals, trace, passedProbe>>

\* ------------------------------------------------------------------ predict
\* The external program the exported model is: what it prints for its arguments
\* (the feature values), or a non-zero exit. Deterministic.
Program(argv) ==
    IF argv = <<>> \/ ~IntParses(argv[1])
    THEN [status |-> "exit", code |-> 1, out |-> <<>>]
    ELSE CASE Int_(argv[1]) % 4 = 0 -> [status |-> "ok", code |-> 0, out |-> <<"0", "\n">>]
           [] Int_(argv[1]) % 4 = 1 -> [status |-> "ok", code |-> 0, out |-> <<"1", "\n">>]
           [] Int_(argv[1]) % 4 = 2 -> [status |-> "ok", code |-> 0, out |-> <<"n", "a", "n", "\n">>]
           [] OTHER -> [status |-> "exit", code |-> 1, out |-> <<>>]

OsError == [status |-> "oserror", code |-> 0, out |-> <<>>]
Failed == [status |-> "exit", code |-> 1, out |-> <<>>]

DropFirst(s, n) == SubSeq(s, n + 1, Len(s))

\* A process started with argv in tnp_dir, with files the directory's files:
\* the launcher is missing (OSError), or the program it is asked to run is not
\* there (non-zero exit), or the program runs on the remaining arguments.
Process(argv, files) ==
    LET exe == argv[1] IN
    CASE Len(exe) > 2 /\ SubSeq(exe, 1, 2) = <<".", "/">> ->
             IF DropFirst(exe, 2) \in files THEN Program(Tail(argv)) ELSE OsError
      [] exe \notin present -> OsError
      [] exe = JAVA /\ exe \in present ->
             IF Len(argv) >= 4 /\ Concat(<<argv[4], <<".", "c", "l", "a", "s", "s">>>>) \in files
             THEN Program(DropFirst(argv, 4)) ELSE Failed
      [] exe \in {NODE, RUBY} /\ exe \in present ->
             IF Len(argv) >= 2 /\ argv[2] \in files THEN Program(DropFirst(argv, 2)) ELSE Failed
      [] exe = PHP /\ exe \in present ->
             IF Len(argv) >= 3 /\ argv[3] \in files THEN Program(DropFirst(argv, 3)) ELSE Failed
      [] OTHER -> Failed

\* The file a successful compiler run leaves in tnp_dir.
Artifact(argv) ==
    IF argv[1] = GCC THEN argv[Len(argv)]
    ELSE Concat(<<SubSeq(argv[2], 1, Len(argv[2]) - 5), <<".", "c", "l", "a", "s", "s">>>>)

\* test_dependencies: depends.get(lang), None for a language the table lacks
Depends(lang) ==
    CASE lang = "c" -> <<GCC>>
      [] lang = "java" -> <<JAVA, JAVAC>>
      [] lang = "js" -> <<NODE>>
      [] lang = "php" -> <<PHP>>
      [] lang = "ruby" -> <<RUBY>>
      [] OTHER -> None

\* the shell command of test_dependencies, by the name it hashes; '{}' unformatted
CmdTemplate == <<"{", "}">>

\* cmd.format(exe): fills the placeholder, if cmd still has one
Format(c, exe) == IF c = CmdTemplate THEN exe ELSE c

\* output of `if hash <name> 2/dev/null; then echo 1; else echo 0; fi`, stderr included
HashOutput(name) ==
    IF name \in present THEN <<"1", "\n">>
    ELSE <<"n", "o", "t", " ", "f", "o", "u", "n", "d", "\n", "0", "\n">>

\* available.strip() is '1': identity of two strings; equal values are the same
\* object only where the interpreter shares them
Available(output) == Strip(output) = <<"1">> /\ is_interned

\* predict ends by raising: the locals are gone, the arguments are kept for the record
Raise(error, what, code) ==
    /\ last' = Raised("predict", error, what, code)
    /\ pc' = "done"
    /\ ResetLocals
    /\ details' = NoDetails

RECURSIVE ProbeLoop(_, _, _, _)
\* the loop of test_dependencies from its i-th iteration on (lines 345-353), with
\* c the value of cmd and events the probes made so far: the probes made, and the
\* executable the SystemError names (None if the loop ends without raising)
ProbeLoop(depends, i, c, events) ==
    IF i > Len(depends)
    THEN [events |-> events, error |-> "", what |-> None]
    ELSE LET exe == depends[i]
             formatted == Format(c, exe)
             probed == Append(events, Event("probe", <<formatted>>, 0))
         IN IF ~Available(HashOutput(formatted))
            THEN [events |-> probed, error |-> "SystemError", what |-> exe]
            ELSE ProbeLoop(depends, i + 1, formatted, probed)

\* Porter.test_dependencies(language): the probes it makes and how it ends
test_dependencies(language) ==
    IF Depends(language) = None
    THEN [events |-> <<>>, error |-> "TypeError", what |-> None]
    ELSE ProbeLoop(Depends(language) \o <<MKDIR, RM>>, 1, CmdTemplate, <<>>)

\* predict(X, 'Brain', 'predict', 'tmp', keep_tmp_dir) is called, and checks the
\* dependencies unless the instance's flag says they were tested (lines 262-264)
Predict(Xin, keep) ==
    /\ pc = "idle"
    /\ constructed
    /\ X' = Xin
    /\ keep_tmp_dir' = keep
    /\ IF tested_env_dependencies
       THEN /\ pc' = "support"
            /\ UNCHANGED <<locals, details, trace, last, passedProbe>>
       ELSE LET t == test_dependencies(target_language) IN
            /\ trace' = t.events
            /\ IF t.error # ""
               THEN /\ Raise(t.error, t.what, 0)
                    /\ UNCHANGED passedProbe
               ELSE /\ pc' = "support"
                    /\ passedProbe' = TRUE
                    /\ UNCHANGED <<locals, details, last>>
    /\ UNCHANGED <<env, fs, inst>>

\* the support check (lines 266-270)
Support ==
    /\ pc = "support"
    /\ IF "predict" \notin SUPPORTED_METHODS
       THEN Raise("AttributeError", <<"method">>, 0)
       ELSE /\ pc' = "rm"
            /\ UNCHANGED <<locals, details, last>>
    /\ UNCHANGED <<env, fs, inst, args, trace, passedProbe>>

\* subp.call(['rm', '-rf', tnp_dir]) (line 273)
Rm ==
    /\ pc = "rm"
    /\ trace' = Append(trace, Event("spawn", <<RM>>, 0))
    /\ IF RM \notin present
       THEN /\ Raise("OSError", RM, 0)
            /\ UNCHANGED fs
       ELSE /\ dirExists' = FALSE
            /\ dirFiles' = {}
            /\ pc' = "mkdir"
            /\ UNCHANGED <<locals, details, last>>
    /\ UNCHANGED <<env, inst, args, passedProbe>>

\* subp.call(['mkdir', tnp_dir]) (line 274)
Mkdir ==
    /\ pc = "mkdir"
    /\ trace' = Append(trace, Event("spawn", <<MKDIR>>, 0))
    /\ IF MKDIR \notin present
       THEN /\ Raise("OSError", MKDIR, 0)
            /\ UNCHANGED fs
       ELSE /\ dirExists' = TRUE
            /\ pc' = "write"
            /\ UNCHANGED <<dirFiles, locals, details, last>>
    /\ UNCHANGED <<env, inst, args, passedProbe>>

\* export with details, and the model written to tnp_dir/filename (lines 276-283)
WriteModel ==
    /\ pc = "write"
    /\ LET d == ExportDetails(Brain, "predict")
           filename == get_filename(Brain, target_language)
       IN /\ details' = d
          /\ dirFiles' = dirFiles \cup {filename}
          /\ trace' = Append(trace, Event("write", <<filename>>, 0))
    /\ pc' = "compile"
    /\ UNCHANGED <<env, dirExists, inst, args, locals, last, passedProbe>>

\* after the compilation step: exec_cmd, y, and the branch on X.shape (lines 291-305)
AfterCompile ==
    /\ exec_cmd' = Split(Str(details.execution))
    /\ idx' = 1
    /\ y' = IF X.ndim = 1 THEN <<>> ELSE [i \in 1..Len(X.rows) |-> -1]
    /\ pc' = CASE X.ndim = 1 -> "exec"
               [] X.ndim # 1 /\ Len(X.rows) > 0 -> "rows"
               [] OTHER -> "cleanup"
    /\ UNCHANGED <<details, last>>

\* the compilation command, where the language has one (lines 285-289)
Compile(exit) ==
    /\ pc = "compile"
    /\ IF details.compilation = None
       THEN /\ exit = 0
            /\ AfterCompile
            /\ UNCHANGED <<fs, trace>>
       ELSE LET comp_cmd == Split(Str(details.compilation)) IN
            /\ trace' = Append(trace, Event("compile", comp_cmd, exit))
            /\ IF comp_cmd[1] \notin present
               THEN /\ exit = 0
                    /\ Raise("OSError", comp_cmd[1], 0)
                    /\ UNCHANGED fs
               ELSE /\ dirFiles' = IF exit = 0 THEN dirFiles \cup {Artifact(comp_cmd)}
                                   ELSE dirFiles
                    /\ AfterCompile
                    /\ UNCHANGED dirExists
    /\ UNCHANGED <<env, inst, args, passedProbe>>

\* the features of one row as arguments: [str(f).strip() for f in x]
FeatureArgs(x) == [i \in 1..Len(x) |-> Strip(StrNat(x[i]))]

\* the loop handling the first row on every iteration
RowAt_first(Xin, i) == Xin.rows[1]

\* the row the loop of line 307 handles on its idx-th iteration
RowAt(Xin, i) == Xin.rows[i]

\* y with the label of the idx-th row stored (line 311)
StoreLabel(ys, i, label) == [ys EXCEPT ![i] = label]

\* check_output of the execution command on one feature vector, and int(pred)
\* (lines 299-302 and 308-311): the step's outcome
Execute(x) ==
    LET full_exec_cmd == exec_cmd \o FeatureArgs(x)
        run == Process(full_exec_cmd, dirFiles)
    IN CASE run.status = "oserror" -> [error |-> "OSError", code |-> 0, label |-> 0]
         [] run.status = "exit" -> [error |-> "CalledProcessError", code |-> run.code, label |-> 0]
         [] run.status = "ok" /\ ~IntParses(run.out) -> [error |-> "ValueError", code |-> 0, label |-> 0]
         [] OTHER -> [error |-> "", code |-> 0, label |-> Int_(run.out)]

\* single feature set (lines 298-302)
ExecSingle ==
    /\ pc = "exec"
    /\ LET r == Execute(X.rows[1]) IN
        /\ trace' = Append(trace, Event("exec", exec_cmd \o FeatureArgs(X.rows[1]), r.code))
        /\ IF r.error # ""
           THEN Raise(r.error, exec_cmd[1], r.code)
           ELSE /\ y' = <<r.label>>
                /\ pc' = "cleanup"
                /\ UNCHANGED <<exec_cmd, idx, details, last>>
    /\ UNCHANGED <<env, fs, inst, args, passedProbe>>

\* multiple feature sets: one iteration of the loop (lines 307-311)
ExecRow ==
    /\ pc = "rows"
    /\ LET x == RowAt(X, idx)
           r == Execute(x)
       IN
        /\ trace' = Append(trace, Event("exec", exec_cmd \o FeatureArgs(x), r.code))
        /\ IF r.error # ""
           THEN Raise(r.error, exec_cmd[1], r.code)
           ELSE /\ y' = StoreLabel(y, idx, r.label)
                /\ idx' = idx + 1
                /\ pc' = IF idx = Len(X.rows) THEN "cleanup" ELSE "rows"
                /\ UNCHANGED <<exec_cmd, details, last>>
    /\ UNCHANGED <<env, fs, inst, args, passedProbe>>

\* the final cleanup and the return (lines 313-317)
Cleanup ==
    /\ pc = "cleanup"
    /\ IF ~keep_tmp_dir
       THEN /\ trace' = Append(trace, Event("spawn", <<RM>>, 0))
            /\ dirExists' = FALSE
            /\ dirFiles' = {}
       ELSE UNCHANGED <<trace, fs>>
    /\ last' = Returned("predict", y)
    /\ pc' = "done"
    /\ ResetLocals
    /\ details' = NoDetails
    /\ UNCHANGED <<env, inst, args, passedProbe>>

\* the caller takes the outcome of the operation that ended; the next one may start
Resume ==
    /\ pc = "done"
    /\ pc' = "idle"
    /\ X' = NoInput
    /\ keep_tmp_dir' = FALSE
    /\ details' = NoDetails
    /\ trace' = <<>>
    /\ last' = Idle
    /\ UNCHANGED <<env, fs, inst, locals, passedProbe>>

Next ==
    \/ \E model \in Models, language \in LanguageArgs, method \in Methods :
            Construct(model, language, method)
    \/ \E class_name \in ClassNames, det \in BOOLEAN : Export(class_name, det)
    \/ \E Xin \in Inputs, keep \in BOOLEAN : Predict(Xin, keep)
    \/ Support
    \/ Rm
    \/ Mkdir
    \/ WriteModel
    \/ \E exit \in {0, 1} : Compile(exit)
    \/ ExecSingle
    \/ ExecRow
    \/ Cleanup
    \/ Resume

Spec == Init /\ [][Next]_vars

\* ------------------------------------------------------------------- claims
\* an operation op has just ended
Ended(op) == pc = "done" /\ last.op = op

\* the events of tr of the kinds evs, in order
EventsOf(tr, evs) == SelectSeq(tr, LAMBDA e : e.ev \in evs)

ProcessEvents == {"probe", "spawn", "compile", "exec"}

\* the operation that ended failed because the method is not supported
MethodRejected ==
    /\ pc = "done"
    /\ last.kind = "raised"
    /\ last.error = "AttributeError"
    /\ last.what = <<"method">>

\* C1: a request whose method is not in the supported-method set fails, in the
\* constructor and in predict alike, before any process is spawned (the
\* toolchain probe, rm and mkdir included) and before any file is written.
C1_UnsupportedMethodBeforeAnyWork ==
    MethodRejected => EventsOf(trace, ProcessEvents \cup {"write"}) = <<>>

\* the executables a language requires: its tools, then mkdir and rm
RequiredExes(language) ==
    (CASE language = "c" -> <<GCC>>
       [] language = "java" -> <<JAVA, JAVAC>>
       [] language = "js" -> <<NODE>>
       [] language = "php" -> <<PHP>>
       [] language = "ruby" -> <<RUBY>>
       [] OTHER -> <<>>) \o <<MKDIR, RM>>

\* C2: for every supported language and every executable E it requires, with
\* E alone absent predict fails with the toolchain-missing error naming E,
\* before the workspace directory is removed or created.
C2_MissingExecutableDetected ==
    \A i \in 1..Len(RequiredExes(target_language)) :
        LET E == RequiredExes(target_language)[i] IN
        (/\ Ended("predict")
         /\ target_language \in SupportedLanguages
         /\ present = AllExes \ {E})
        => /\ last.kind = "raised"
           /\ last.error = "SystemError"
           /\ last.what = E
           /\ EventsOf(trace, {"spawn", "write"}) = <<>>

\* C3: whenever predict ends with keep_tmp_dir false, by returning or by
\* raising, after it created the workspace, tnp_dir no longer exists.
C3_WorkspaceRemovedOnEveryExit ==
    (/\ Ended("predict")
     /\ ~keep_tmp_dir
     /\ \E i \in 1..Len(trace) : trace[i].ev = "spawn" /\ trace[i].argv = <<MKDIR>>)
    => ~dirExists /\ dirFiles = {}

\* C4: a non-zero exit of the compile process makes predict fail with a
\* compilation failure carrying the exit code; no execution process is
\* spawned after it and no prediction is returned.
C4_CompileFailureStopsPredict ==
    \A i \in 1..Len(trace) :
        (trace[i].ev = "compile" /\ trace[i].exit # 0)
        => /\ EventsOf(trace, {"exec"}) = <<>>
           /\ pc = "done" => (last.kind = "raised" /\ last.code = trace[i].exit)

\* the label the exported program prints for the feature vector x
C5_Label(x) == Int_(Program(FeatureArgs(x)).out)

\* the execution command line of predict for the feature vector x
C5_CommandLine(x) ==
    Split(Str(get_commands(get_filename(Brain, target_language), Brain,
                           target_language)[2])) \o FeatureArgs(x)

\* C5: predict on an input of m >= 1 rows returns exactly m labels, in row
\* order, the i-th being the scalar predict returns for row i alone; one
\* execution process is spawned per row, in row order, and the compile step
\* (of a language that has one) runs once.
C5_BatchEqualsSingle ==
    (Ended("predict") /\ last.kind = "returned")
    => LET execs == EventsOf(trace, {"exec"})
           m == Len(X.rows)
       IN /\ X.ndim = 1 => last.y = <<C5_Label(X.rows[1])>>
          /\ X.ndim = 2 =>
                /\ Len(last.y) = m
                /\ \A i \in 1..m : last.y[i] = C5_Label(X.rows[i])
                /\ Len(execs) = m
                /\ \A i \in 1..m : execs[i].argv = C5_CommandLine(X.rows[i])
          /\ Len(EventsOf(trace, {"compile"})) =
                (IF target_language \in {"c", "java"} THEN 1 ELSE 0)

\* a batch of two rows with different labels was predicted
C5_Witness ==
    /\ Ended("predict")
    /\ last.kind = "returned"
    /\ X.ndim = 2
    /\ Len(X.rows) = 2
    /\ Len(last.y) = 2
    /\ last.y[1] = 1
    /\ last.y[2] = 0
    /\ target_language = "java"

\* the constructor got as far as deciding on the language
LanguageDecided ==
    /\ Ended("init")
    /\ (last.kind = "returned" \/ last.what \in {<<"language">>, <<"method">>})

\* C6: whether a renderer exists for the language is decided by a static
\* registry lookup, before any filesystem activity: a language without a
\* renderer is rejected without the filesystem being touched, one with a
\* renderer is accepted whatever directories exist.
C6_StaticRegistryLookup ==
    LanguageDecided
    => /\ EventsOf(trace, {"isdir"}) = <<>>
       /\ (last.what = <<"language">>) <=> (last.language \notin SupportedLanguages)

\* C7: for every supported language and class name get_commands returns an
\* execute command, and a compile command exactly for the languages with a
\* compile step (c and java); predict never splits a missing execute command.
C7_CommandsNeverMissing ==
    /\ (Ended("export") /\ details.detailed /\ target_language \in SupportedLanguages)
       => /\ details.execution # None
          /\ (details.compilation # None) <=> (target_language \in {"c", "java"})
    /\ pc \in {"exec", "rows"} => details.execution # None

\* the file extension of a language
C8_Extension(language) ==
    CASE language = "c" -> <<"c">>
      [] language = "java" -> <<"j", "a", "v", "a">>
      [] language = "js" -> <<"j", "s">>
      [] language = "go" -> <<"g", "o">>
      [] language = "php" -> <<"p", "h", "p">>
      [] language = "ruby" -> <<"r", "b">>

\* lowercase(c), with its first character upper-cased for java
C8_Base(c, language) ==
    LET lc == [i \in 1..Len(c) |-> LowerChar(c[i])] IN
    IF language = "java" /\ lc # <<>>
    THEN <<UpperChar(lc[1])>> \o Tail(lc)
    ELSE lc

\* C8: get_filename(c, L) is base.extension(L), base being lowercase(c), with
\* its first character upper-cased for java; 'Brain' gives 'Brain.java' for
\* java and 'brain.<ext>' for the other languages.
C8_FilenameRule ==
    (Ended("export") /\ details.detailed /\ target_language \in SupportedLanguages)
    => /\ details.filename =
            C8_Base(details.class_name, target_language) \o <<".">>
                \o C8_Extension(target_language)
       /\ details.class_name = Brain =>
            /\ SubSeq(details.filename, 1, 6) =
                 IF target_language = "java" THEN <<"B", "r", "a", "i", "n", ".">>
                 ELSE <<"b", "r", "a", "i", "n", ".">>
            /\ DropFirst(details.filename, 6) = C8_Extension(target_language)

\* 'Brain' was exported for java
C8_Witness ==
    /\ Ended("export")
    /\ details.detailed
    /\ target_language = "java"
    /\ details.class_name = Brain
    /\ details.filename = <<"B", "r", "a", "i", "n", ".", "j", "a", "v", "a">>

\* C9: with every required executable present test_dependencies does not
\* raise, and the k-th probe is a probe for the k-th required executable.
C9_ProbeReportsPresence ==
    /\ (Ended("predict") /\ target_language \in SupportedLanguages /\ present = AllExes)
       => last.error \notin {"SystemError", "TypeError"}
    /\ LET probes == EventsOf(trace, {"probe"}) IN
       \A i \in 1..Len(probes) : probes[i].argv = <<RequiredExes(target_language)[i]>>

\* C10: once a predict call on an instance has passed the probe, the
\* instance's tested_env_dependencies flag is true, so later calls skip it.
C10_ProbeRunsOnce ==
    passedProbe => tested_env_dependencies

====
